---- MODULE Spec2Model ----
(***************************************************************************)
(* A model of cobalt's Akoma Ntoso document layer (cobalt/akn.py):         *)
(* AkomaNtosoDocument (parse, get_namespace, ensure_element) and           *)
(* StructuredDocument (parse, title, the date and language accessors,      *)
(* frbr_uri, components, _ensure_lifecycle, _ensure_reference).            *)
(*                                                                         *)
(* Python strings are modelled as sequences of tokens: an atom is one      *)
(* token, and the separators "/", "@", "!", "-" and "." are tokens of      *)
(* their own, so that string concatenation is \o and FrbrUri.parse has to  *)
(* take a string apart again.  None is a reserved value.                   *)
(***************************************************************************)
EXTENDS Integers, Sequences, FiniteSets, TLC

VARIABLES
    tree,     \* the parsed input tree handed to parse / get_namespace
    outcome,  \* what parse / get_namespace returned or raised for `tree`
    doc,      \* the element tree owned by a StructuredDocument
    pre,      \* `doc` as it was before the last operation
    op        \* the last operation: its name, argument, fault and result

vars == <<tree, outcome, doc, pre, op>>

----------------------------------------------------------------------------
(* Python values *)

None == <<"<None>">>

Str(a) == <<a>>

EmptyStr == <<>>

\* Python truthiness of an Optional[str]
Truthy(s) == s # None /\ s # EmptyStr

\* the names of the faults the code raises
NoFault == "ok"
ValueError == "ValueError"
AttributeError == "AttributeError"
IndexError == "IndexError"

----------------------------------------------------------------------------
(* cobalt.uri.FrbrUri: the identifying-URI value type *)

\* atoms matching [a-z]{2}
TwoLetter == {"za", "na"}

\* atoms matching [a-z]{3}
ThreeLetter == {"eng", "fra", "akn", "act"}

\* atoms matching [0-9]{4}(-[0-9]{2}(-[0-9]{2})?)?
DateAtoms == {"2020", "2020-01-01", "2021-06-30"}

\* atoms whose first character is a digit
DigitStart == DateAtoms \cup {"1", "22"}

FrbrUri(prefix, country, locality, doctype, subtype, actor, date, number, work_component, language, expression_date, format) ==
    [prefix |-> prefix, country |-> country, locality |-> locality,
     doctype |-> doctype, subtype |-> subtype, actor |-> actor, date |-> date,
     number |-> number, work_component |-> work_component,
     language |-> language, expression_date |-> expression_date,
     format |-> format]

\* '/'.join(parts)
RECURSIVE Join(_)
Join(parts) ==
    IF parts = <<>> THEN <<>>
    ELSE IF Len(parts) = 1 THEN parts[1]
    ELSE parts[1] \o <<"/">> \o Join(Tail(parts))

\* FrbrUri.place
place(u) ==
    IF Truthy(u.locality) THEN u.country \o <<"-">> \o u.locality ELSE u.country

\* FrbrUri.work_uri(work_component=True)
work_uri(u, work_component) ==
    LET p0 == <<EmptyStr>>
              \o (IF Truthy(u.prefix) THEN <<u.prefix>> ELSE <<>>)
              \o <<place(u), u.doctype>>
        p1 == p0 \o (IF Truthy(u.subtype) THEN <<u.subtype>> ELSE <<>>)
        p2 == p1 \o (IF Truthy(u.actor) THEN <<u.actor>> ELSE <<>>)
        p3 == p2 \o <<u.date, u.number>>
        p4 == IF work_component /\ Truthy(u.work_component)
              THEN p3 \o << <<"!">> \o u.work_component >>
              ELSE p3
    IN  Join(p4)

\* FrbrUri.uri(): the work URI without the work component
uri(u) == work_uri(u, FALSE)

\* FrbrUri.expression_uri(work_component=True)
expression_uri(u, work_component) ==
    LET e0 == work_uri(u, FALSE) \o <<"/">> \o u.language
        e1 == IF u.expression_date # None THEN e0 \o u.expression_date ELSE e0
    IN  IF work_component /\ Truthy(u.work_component)
        THEN e1 \o <<"/", "!">> \o u.work_component
        ELSE e1

\* FrbrUri.manifestation_uri(work_component=True)
manifestation_uri(u, work_component) ==
    LET m == expression_uri(u, work_component)
    IN  IF Truthy(u.format) THEN m \o <<".">> \o u.format ELSE m

\* s.rstrip('/')
RECURSIVE rstrip(_)
rstrip(s) ==
    IF s # <<>> /\ s[Len(s)] = "/" THEN rstrip(SubSeq(s, 1, Len(s) - 1)) ELSE s

\* s.split('/')
RECURSIVE Split(_, _)
Split(s, cur) ==
    IF s = <<>> THEN <<cur>>
    ELSE IF Head(s) = "/" THEN <<cur>> \o Split(Tail(s), <<>>)
    ELSE Split(Tail(s), Append(cur, Head(s)))

ParseError == [error |-> ValueError]

IsParseError(u) == "error" \in DOMAIN u

\* a segment that [^0-9][^/]* matches
NonDigitSeg(g) == g # <<>> /\ g[1] \notin DigitStart

\* a segment that the date pattern matches
DateSeg(g) == Len(g) = 1 /\ g[1] \in DateAtoms

\* a segment that (?P<language>[a-z]{3})(?P<expression_date>[@:][^/]*)? matches
ExprSeg(g) ==
    /\ g # <<>>
    /\ g[1] \in ThreeLetter
    /\ Len(g) > 1 => g[2] = "@"

\* a segment that !(?P<work_component>[^/]+?) matches
CompSeg(g) == Len(g) >= 2 /\ g[1] = "!"

\* the tail of the pattern, after the number: the optional expression
\* segment, the optional work component, the optional format
ParseTail(u, gs) ==
    LET hasExpr == gs # <<>> /\ ExprSeg(gs[1])
        g1 == IF hasExpr THEN Tail(gs) ELSE gs
        u1 == IF hasExpr
              THEN [u EXCEPT !.language = Str(gs[1][1]),
                             !.expression_date =
                                 IF Len(gs[1]) > 1 THEN Tail(gs[1]) ELSE None]
              ELSE u
        hasComp == g1 # <<>> /\ CompSeg(g1[1])
        g2 == IF hasComp THEN Tail(g1) ELSE g1
        c == IF hasComp THEN Tail(g1[1]) ELSE <<>>
        hasFmt == hasComp /\ Len(c) >= 3 /\ c[Len(c) - 1] = "."
        u2 == IF hasComp
              THEN [u1 EXCEPT !.work_component =
                                  IF hasFmt THEN SubSeq(c, 1, Len(c) - 2) ELSE c,
                              !.format =
                                  IF hasFmt THEN Str(c[Len(c)]) ELSE None]
              ELSE u1
    IN  IF g2 = <<>> THEN u2 ELSE ParseError

\* FrbrUri.parse(s), for a string s
parse_uri(s) ==
    LET gs == Split(rstrip(s), <<>>)
        \* the text must start with "/": the first segment is empty
        hasPrefix == Len(gs) >= 2 /\ gs[2] = <<"akn">>
        i == IF hasPrefix THEN 3 ELSE 2            \* index of the place segment
        n == Len(gs)
        placeOk == n >= i /\ gs[i] # <<>> /\ gs[i][1] \in TwoLetter
                   /\ (Len(gs[i]) = 1 \/ (Len(gs[i]) >= 3 /\ gs[i][2] = "-"))
        docOk == n >= i + 1 /\ gs[i + 1] # <<>>
        \* the segments between the doctype and the date: subtype, actor
        k == IF n >= i + 2 /\ DateSeg(gs[i + 2]) THEN 0
             ELSE IF n >= i + 3 /\ NonDigitSeg(gs[i + 2]) /\ DateSeg(gs[i + 3]) THEN 1
             ELSE IF n >= i + 4 /\ NonDigitSeg(gs[i + 2]) /\ NonDigitSeg(gs[i + 3])
                     /\ DateSeg(gs[i + 4]) THEN 2
             ELSE 3
        d == i + 2 + k                              \* index of the date segment
    IN  IF ~(n >= 2 /\ gs[1] = <<>> /\ placeOk /\ docOk /\ k < 3
             /\ n >= d + 1 /\ gs[d + 1] # <<>>)
        THEN ParseError
        ELSE ParseTail(
                FrbrUri(IF hasPrefix THEN Str("akn") ELSE None,
                        Str(gs[i][1]),
                        IF Len(gs[i]) >= 3 THEN SubSeq(gs[i], 3, Len(gs[i])) ELSE None,
                        gs[i + 1],
                        IF k >= 1 THEN gs[i + 2] ELSE None,
                        IF k = 2 THEN gs[i + 3] ELSE None,
                        gs[d], gs[d + 1], None, None, None, None),
                SubSeq(gs, d + 2, n))

----------------------------------------------------------------------------
(* dates: datetime.date values, datestring() and iso8601.parse_date *)

\* Python values handed to the setters: a datetime.date, a str, None, a FrbrUri
PyDate(y, m, d) == [t |-> "date", year |-> y, month |-> m, day |-> d]

PyStr(s) == [t |-> "str", s |-> s]

PyNone == [t |-> "none"]

PyUri(u) == [t |-> "uri", u |-> u]

D2020 == PyDate(2020, 1, 1)
D2021 == PyDate(2021, 6, 30)

\* "%04d-%02d-%02d" % (year, month, day)
FormatDate(dt) ==
    CASE dt = D2020 -> Str("2020-01-01")
      [] dt = D2021 -> Str("2021-06-30")

\* datestring(value): "" for None, a str unchanged, a date formatted
datestring(value) ==
    IF value.t = "none" THEN EmptyStr
    ELSE IF value.t = "str" THEN value.s
    ELSE FormatDate(value)

DateError == [t |-> "error"]

\* iso8601.parse_date(s).date(); what it cannot parse is a ParseError
parse_date(s) ==
    CASE s = Str("2020-01-01") -> D2020
      [] s = Str("2020") -> D2020
      [] s = Str("2021-06-30") -> D2021
      [] OTHER -> DateError

----------------------------------------------------------------------------
(* the element tree *)

\* a child element of an FRBRWork block with its attributes
El(tag, name, value, date) ==
    [tag |-> tag, name |-> name, value |-> value, date |-> date]

\* a child element of the meta block; `refs` are the children of references
MetaEl(tag, source, refs) == [tag |-> tag, source |-> source, refs |-> refs]

\* a TLCOrganization-like child of references
RefEl(elem, eId, href, showAs) ==
    [elem |-> elem, eId |-> eId, href |-> href, showAs |-> showAs]

\* index of the first child with the tag, 0 if there is none: objectify's
\* attribute lookup parent.tag
FirstIdx(kids, tag) ==
    IF \E i \in 1..Len(kids) : kids[i].tag = tag
    THEN CHOOSE i \in 1..Len(kids) :
            /\ kids[i].tag = tag
            /\ \A j \in 1..(i - 1) : kids[j].tag # tag
    ELSE 0

\* after.addnext(node), `after` being the child at index i
addnext(kids, i, node) ==
    SubSeq(kids, 1, i) \o <<node>> \o SubSeq(kids, i + 1, Len(kids))

\* parent.remove(child), the child at index i
remove(kids, i) == SubSeq(kids, 1, i - 1) \o SubSeq(kids, i + 1, Len(kids))

\* get_element for the last segment of the path: the index of the child, 0 for None
get_element(kids, tag) == FirstIdx(kids, tag)

\* ensure_element: the children with the element there; `node` is what
\* make_element builds and `after` the index of the sibling it is put behind
ensure_element(kids, tag, after, node) ==
    IF get_element(kids, tag) = 0 THEN addnext(kids, after, node) ELSE kids

\* the children of the element a call of ensure_element looks in and adds to:
\* those of meta, or those of the primary FRBRWork
Kids(d, at) == IF at = "meta" THEN d.meta ELSE d.comps[1].work

\* make_element(elem): a new element without attributes or children
make_element(at, elem) ==
    IF at = "meta" THEN MetaEl(elem, None, <<>>) ELSE El(elem, None, None, None)

\* ensure_element(name, after, at) as a caller calls it, for a path that ends
\* in the child `tag` of meta or of the primary FRBRWork and an `after` that
\* is the first child `after` of the same element: the element found or made
\* is handed back
ensure_element_call(d, at, tag, after) ==
    LET kids == ensure_element(Kids(d, at), tag, FirstIdx(Kids(d, at), after),
                               make_element(at, tag))
    IN  [doc |-> IF at = "meta" THEN [d EXCEPT !.meta = kids]
                 ELSE [d EXCEPT !.comps[1].work = kids],
         exc |-> NoFault,
         ret |-> get_element(kids, tag)]

\* the identification block of the primary document is a child of doc.meta;
\* a nested sub-document records whether its meta has one
HasIdent(d, i) ==
    IF i = 1 THEN FirstIdx(d.meta, "identification") # 0 ELSE d.comps[i].ident

\* the attribute `attr` of the first child `tag` of a component's FRBRWork
WorkChild(c, tag) == c.work[FirstIdx(c.work, tag)]

\* what an operation hands back: the tree, the fault raised ("ok" if none),
\* the value returned
Result(d, exc, ret) == [doc |-> d, exc |-> exc, ret |-> ret]

----------------------------------------------------------------------------
(* StructuredDocument: title *)

\* the indices of the FRBRalias children of FRBRWork, in document order
AliasIdx(work) == {i \in 1..Len(work) : work[i].tag = "FRBRalias"}

\* title (getter): the first alias named "title", else the last alias seen
title_get(d) ==
    IF ~HasIdent(d, 1) THEN Result(d, AttributeError, None)
    ELSE LET work == d.comps[1].work
             named == {i \in AliasIdx(work) : work[i].name = Str("title")}
         IN  IF named # {}
             THEN Result(d, NoFault,
                         work[CHOOSE i \in named : \A j \in named : i <= j].value)
             ELSE IF AliasIdx(work) # {}
             THEN Result(d, NoFault,
                         work[CHOOSE i \in AliasIdx(work) :
                                  \A j \in AliasIdx(work) : j <= i].value)
             ELSE Result(d, NoFault, None)

\* title (setter) with a bug: without an alias named "title" a new alias is
\* always made and put behind FRBRuri, whatever aliases there are
title_set_new(d, value) ==
    IF ~HasIdent(d, 1) THEN Result(d, AttributeError, None)
    ELSE LET work == d.comps[1].work
             aliases == {i \in AliasIdx(work) : work[i].name = Str("title")}
             a == IF aliases = {} THEN FirstIdx(work, "FRBRuri") + 1
                  ELSE CHOOSE i \in aliases : \A j \in aliases : i <= j
             work1 == IF aliases = {}
                      THEN addnext(work, FirstIdx(work, "FRBRuri"),
                                   El("FRBRalias", Str("title"), None, None))
                      ELSE work
         IN  Result([d EXCEPT !.comps[1].work = [work1 EXCEPT ![a].value = value]],
                    NoFault, None)

\* title (setter)
title_set(d, value) ==
    IF ~HasIdent(d, 1) THEN Result(d, AttributeError, None)
    ELSE LET work == d.comps[1].work
             \* xpath a:FRBRalias[@name="title"]
             aliases == {i \in AliasIdx(work) : work[i].name = Str("title")}
             \* no such alias: ensure_element(...FRBRalias, after FRBRuri)
             work1 == IF aliases = {}
                      THEN ensure_element(work, "FRBRalias", FirstIdx(work, "FRBRuri"),
                                          El("FRBRalias", None, None, None))
                      ELSE work
             a == IF aliases = {}
                  THEN get_element(work1, "FRBRalias")
                  ELSE CHOOSE i \in aliases : \A j \in aliases : i <= j
             work2 == IF aliases = {}
                      THEN [work1 EXCEPT ![a].name = Str("title")]
                      ELSE work1
             work3 == [work2 EXCEPT ![a].value = value]
         IN  Result([d EXCEPT !.comps[1].work = work3], NoFault, None)

----------------------------------------------------------------------------
(* StructuredDocument: components *)

\* components[name] = idx on an OrderedDict kept as a sequence of entries: a
\* key already there keeps its place and gets the new value
DictPut(m, name, idx) ==
    IF \E i \in 1..Len(m) : m[i].name = name
    THEN [i \in 1..Len(m) |->
            IF m[i].name = name THEN [name |-> name, idx |-> idx] ELSE m[i]]
    ELSE Append(m, [name |-> name, idx |-> idx])

\* ComponentsLoop with a bug: a matched meta without an identification block
\* is not looked into and its sub-document goes into the map under None
RECURSIVE ComponentsLoopLenient(_, _, _)
ComponentsLoopLenient(d, m, i) ==
    IF i > Len(d.comps) THEN Result(d, NoFault, m)
    ELSE IF ~HasIdent(d, i)
    THEN ComponentsLoopLenient(d, DictPut(m, None, i), i + 1)
    ELSE LET u == parse_uri(WorkChild(d.comps[i], "FRBRthis").value)
         IN  IF IsParseError(u) THEN Result(d, ValueError, m)
             ELSE ComponentsLoopLenient(d, DictPut(m, u.work_component, i), i + 1)

\* the loop of components() over the metas the xpath matched, which are the
\* nested sub-documents 2..Len(d.comps) in document order
RECURSIVE ComponentsLoop(_, _, _)
ComponentsLoop(d, m, i) ==
    IF i > Len(d.comps) THEN Result(d, NoFault, m)
    ELSE IF ~HasIdent(d, i) THEN Result(d, AttributeError, m)
    ELSE LET u == parse_uri(WorkChild(d.comps[i], "FRBRthis").value)
         IN  IF IsParseError(u) THEN Result(d, ValueError, m)
             ELSE ComponentsLoop(d, DictPut(m, u.work_component, i), i + 1)

\* components(): the ordered map of component name to element (its index in
\* d.comps), or the fault raised
components(d) ==
    IF ~HasIdent(d, 1) THEN Result(d, AttributeError, <<>>)
    ELSE LET u == parse_uri(WorkChild(d.comps[1], "FRBRthis").value)
         IN  IF IsParseError(u) THEN Result(d, ValueError, <<>>)
             ELSE ComponentsLoop(d, DictPut(<<>>, u.work_component, 1), 2)

----------------------------------------------------------------------------
(* StructuredDocument: dates, language and frbr_uri *)

\* work_date (setter)
work_date_set(d, value) ==
    IF ~HasIdent(d, 1) THEN Result(d, AttributeError, None)
    ELSE LET work == d.comps[1].work
         IN  Result([d EXCEPT !.comps[1].work =
                        [work EXCEPT ![FirstIdx(work, "FRBRdate")].date =
                                         datestring(value)]],
                    NoFault, None)

\* manifestation_date (setter)
manifestation_date_set(d, value) ==
    IF ~HasIdent(d, 1) THEN Result(d, AttributeError, None)
    ELSE Result([d EXCEPT !.comps[1].manif.date = datestring(value)], NoFault, None)

\* expression_date (getter)
expression_date_get(d) ==
    IF ~HasIdent(d, 1) THEN Result(d, AttributeError, None)
    ELSE LET dt == parse_date(d.comps[1].expr.date)
         IN  IF dt = DateError THEN Result(d, ValueError, None)
             ELSE Result(d, NoFault, dt)

\* language (getter): FRBRlanguage.get('language', 'eng')
language_get(d) ==
    IF ~HasIdent(d, 1) THEN Result(d, AttributeError, None)
    ELSE Result(d, NoFault,
                IF d.comps[1].expr.language = None THEN Str("eng")
                ELSE d.comps[1].expr.language)

\* frbr_uri (getter): the parsed Manifestation FRBRuri, None if it is empty
frbr_uri_get(d) ==
    IF ~HasIdent(d, 1) THEN Result(d, AttributeError, PyNone)
    ELSE LET v == d.comps[1].manif.uri
         IN  IF ~Truthy(v) THEN Result(d, NoFault, PyNone)
             ELSE IF IsParseError(parse_uri(v)) THEN Result(d, ValueError, PyNone)
             ELSE Result(d, NoFault, PyUri(parse_uri(v)))

\* the writes to FRBRWork of one component in the frbr_uri setter
WriteWork(work, u) ==
    LET w1 == [work EXCEPT ![FirstIdx(work, "FRBRuri")].value = uri(u)]
        w2 == [w1 EXCEPT ![FirstIdx(w1, "FRBRthis")].value = work_uri(u, TRUE)]
        w3 == [w2 EXCEPT ![FirstIdx(w2, "FRBRcountry")].value = place(u)]
        w4 == ensure_element(w3, "FRBRnumber", FirstIdx(w3, "FRBRcountry"),
                             El("FRBRnumber", None, None, None))
        w5 == [w4 EXCEPT ![get_element(w4, "FRBRnumber")].value = u.number]
        w6 == ensure_element(w5, "FRBRsubtype", FirstIdx(w5, "FRBRcountry"),
                             El("FRBRsubtype", None, None, None))
    IN  IF Truthy(u.subtype)
        THEN [w6 EXCEPT ![get_element(w6, "FRBRsubtype")].value = u.subtype]
        ELSE IF FirstIdx(w5, "FRBRsubtype") # 0
        THEN remove(w5, FirstIdx(w5, "FRBRsubtype"))
        ELSE w5

\* the writes to FRBRExpression of one component
WriteExpression(e, u) ==
    [e EXCEPT !.uri = expression_uri(u, FALSE), !.this = expression_uri(u, TRUE)]

\* WriteManifestation with a bug: the manifestation-scope form is written
WriteManifestationScope(m, u) ==
    [m EXCEPT !.uri = manifestation_uri(u, FALSE),
              !.this = manifestation_uri(u, TRUE)]

\* the writes to FRBRManifestation of one component
WriteManifestation(m, u) ==
    [m EXCEPT !.uri = expression_uri(u, FALSE), !.this = expression_uri(u, TRUE)]

\* UpdateComponent with a bug: the component's name is not put into the
\* identifier before the writes
UpdateComponentUnnamed(d, u0, entry) ==
    LET i == entry.idx
    IN  [d EXCEPT !.comps[i].work = WriteWork(d.comps[i].work, u0),
                  !.comps[i].expr = WriteExpression(d.comps[i].expr, u0),
                  !.comps[i].manif = WriteManifestation(d.comps[i].manif, u0)]

\* the body of the setter's loop for one entry of the component map
UpdateComponent(d, u0, entry) ==
    LET u == [u0 EXCEPT !.work_component = entry.name]
        i == entry.idx
    IN  [d EXCEPT !.comps[i].work = WriteWork(d.comps[i].work, u),
                  !.comps[i].expr = WriteExpression(d.comps[i].expr, u),
                  !.comps[i].manif = WriteManifestation(d.comps[i].manif, u)]

\* the setter's loop over components().items(); element.find(...) is None for
\* an element without an identification block, and ident.FRBRWork then faults.
\* The loop leaves the caller's FrbrUri with the last component's name.
RECURSIVE UpdateLoop(_, _, _, _)
UpdateLoop(d, u, m, k) ==
    IF k > Len(m) THEN Result(d, NoFault, PyUri(u))
    ELSE IF ~HasIdent(d, m[k].idx) THEN Result(d, AttributeError, None)
    ELSE UpdateLoop(UpdateComponent(d, u, m[k]),
                    [u EXCEPT !.work_component = m[k].name], m, k + 1)

\* frbr_uri (setter); `arg` is a FrbrUri, a str or None.  Returns the
\* FrbrUri as the setter leaves it (the caller's own object when one was
\* passed)
frbr_uri_set(d, arg) ==
    LET u0 == IF arg.t = "uri" THEN arg.u
              ELSE IF arg.t = "str" THEN parse_uri(arg.s)
              ELSE ParseError
        lang == language_get(d)
        date == expression_date_get(d)
        u1 == [u0 EXCEPT !.language = lang.ret,
                         !.expression_date = <<"@">> \o datestring(date.ret)]
        u2 == IF u1.work_component = None
              THEN [u1 EXCEPT !.work_component = Str("main")]
              ELSE u1
        m == components(d)
    IN  IF arg.t = "none" THEN Result(d, AttributeError, None)
        ELSE IF IsParseError(u0) THEN Result(d, ValueError, None)
        ELSE IF lang.exc # NoFault THEN Result(d, lang.exc, None)
        ELSE IF date.exc # NoFault THEN Result(d, date.exc, None)
        ELSE IF m.exc # NoFault THEN Result(d, m.exc, None)
        ELSE UpdateLoop(d, u2, m.ret, 1)

\* self.frbr_uri = self.frbr_uri
Resync(d) ==
    LET g == frbr_uri_get(d)
    IN  IF g.exc # NoFault THEN Result(d, g.exc, None) ELSE frbr_uri_set(d, g.ret)

\* expression_date (setter)
expression_date_set(d, value) ==
    IF ~HasIdent(d, 1) THEN Result(d, AttributeError, None)
    ELSE Resync([d EXCEPT !.comps[1].expr.date = datestring(value)])

\* language (setter)
language_set(d, value) ==
    IF ~HasIdent(d, 1) THEN Result(d, AttributeError, None)
    ELSE Resync([d EXCEPT !.comps[1].expr.language = value])

----------------------------------------------------------------------------
(* StructuredDocument: _ensure_lifecycle and _ensure_reference *)

\* self.source: name, id, url
source == <<Str("cobalt"), Str("cobalt"), Str("https://github.com/laws-africa/cobalt")>>

\* references.find('./{ns}elem[@eId="id"]'): index of the first match, 0 for None
FindRef(refs, elem, id) ==
    IF \E i \in 1..Len(refs) : refs[i].elem = elem /\ refs[i].eId = id
    THEN CHOOSE i \in 1..Len(refs) :
            /\ refs[i].elem = elem /\ refs[i].eId = id
            /\ \A j \in 1..(i - 1) : ~(refs[j].elem = elem /\ refs[j].eId = id)
    ELSE 0

RECURSIVE ensure_lifecycle(_)

\* _ensure_reference(elem, name, id, href): a fault of _ensure_lifecycle(),
\* evaluated for the argument `after`, ends the call
ensure_reference(d, elem, name, id, href) ==
    LET lc == ensure_lifecycle(d)
        meta1 == ensure_element(lc.doc.meta, "references", lc.ret,
                                MetaEl("references", None, <<>>))
        r == get_element(meta1, "references")
        refs == meta1[r].refs
        at == FindRef(refs, elem, id)
        refs1 == IF at = 0
                 THEN <<RefEl(elem, id, href, name)>> \o refs   \* insert(0, ref)
                 ELSE refs
    IN  IF lc.exc # NoFault THEN Result(lc.doc, lc.exc, 0)
        ELSE Result([lc.doc EXCEPT !.meta = [meta1 EXCEPT ![r].refs = refs1]],
                    NoFault, IF at = 0 THEN 1 ELSE at)

\* _ensure_lifecycle() with a bug: the reference is ensured on every call,
\* whether or not the lifecycle block had its source
ensure_lifecycle_always(d) ==
    LET pub == get_element(d.meta, "publication")
        after == IF pub # 0 THEN pub ELSE get_element(d.meta, "identification")
        meta1 == ensure_element(d.meta, "lifecycle", after,
                                MetaEl("lifecycle", None, <<>>))
        node == get_element(meta1, "lifecycle")
        d1 == [d EXCEPT !.meta = meta1]
        d2 == IF Truthy(meta1[node].source) THEN d1
              ELSE [d1 EXCEPT !.meta[node].source = <<"#">> \o source[2]]
        r == get_element(d2.meta, "references")
        d3 == IF r # 0 THEN d2
              ELSE [d2 EXCEPT !.meta = addnext(d2.meta, node,
                                               MetaEl("references", None, <<>>))]
        r3 == get_element(d3.meta, "references")
        refs == d3.meta[r3].refs
    IN  IF after = 0 THEN Result(d, AttributeError, 0)
        ELSE Result(IF FindRef(refs, "TLCOrganization", source[2]) # 0 THEN d3
                    ELSE [d3 EXCEPT !.meta[r3].refs =
                              <<RefEl("TLCOrganization", source[2], source[3],
                                      source[1])>> \o refs],
                    NoFault, node)

\* _ensure_lifecycle()
ensure_lifecycle(d) ==
    LET pub == get_element(d.meta, "publication")
        after == IF pub # 0 THEN pub ELSE get_element(d.meta, "identification")
        meta1 == ensure_element(d.meta, "lifecycle", after,
                                MetaEl("lifecycle", None, <<>>))
        node == get_element(meta1, "lifecycle")
        d1 == [d EXCEPT !.meta = meta1]
        d2 == [d1 EXCEPT !.meta[node].source = <<"#">> \o source[2]]
        rf == ensure_reference(d2, "TLCOrganization", source[1], source[2], source[3])
    IN  IF after = 0 THEN Result(d, AttributeError, 0)
        ELSE IF ~Truthy(meta1[node].source)
        THEN Result(rf.doc, rf.exc, IF rf.exc = NoFault THEN node ELSE 0)
        ELSE Result(d1, NoFault, node)

----------------------------------------------------------------------------
(* parse and get_namespace *)

\* an element's tag: '{ns}name', or 'name' when it has no namespace
QName(ns, name) == [ns |-> ns, name |-> name]

NS2 == "http://www.akomantoso.org/2.0"
NS3 == "http://docs.oasis-open.org/legaldocml/ns/akn/3.0"

\* AKN_NAMESPACES.items(); a version label is the sequence of its characters'
\* code points, which is what sorted() compares
AKN_NAMESPACES ==
    << [label |-> <<50, 46, 48>>, uri |-> NS2],
       [label |-> <<51, 46, 48>>, uri |-> NS3] >>

\* Python's < on two str
RECURSIVE StrLess(_, _)
StrLess(a, b) ==
    IF b = <<>> THEN FALSE
    ELSE IF a = <<>> THEN TRUE
    ELSE IF Head(a) # Head(b) THEN Head(a) < Head(b)
    ELSE StrLess(Tail(a), Tail(b))

\* sorted(items) without reverse=True: the least label first
RECURSIVE SortedForward(_)
SortedForward(items) ==
    IF items = <<>> THEN <<>>
    ELSE LET i == CHOOSE i \in 1..Len(items) :
                     \A j \in 1..Len(items) : ~StrLess(items[j].label, items[i].label)
         IN  <<items[i]>> \o SortedForward(remove(items, i))

\* sorted(items, reverse=True): the greatest label first
RECURSIVE SortedReverse(_)
SortedReverse(items) ==
    IF items = <<>> THEN <<>>
    ELSE LET i == CHOOSE i \in 1..Len(items) :
                     \A j \in 1..Len(items) : ~StrLess(items[i].label, items[j].label)
         IN  <<items[i]>> \o SortedReverse(remove(items, i))

\* the first uri of `known` that is in `namespaces`, None if there is none
RECURSIVE FirstKnown(_, _)
FirstKnown(known, namespaces) ==
    IF known = <<>> THEN None
    ELSE IF \E i \in 1..Len(namespaces) : namespaces[i] = known[1] THEN Str(known[1])
    ELSE FirstKnown(Tail(known), namespaces)

\* get_namespace(), for root.nsmap.values(): the namespace, or the ValueError
\* with the two lists its message joins
get_namespace(namespaces) ==
    LET sorted == SortedReverse(AKN_NAMESPACES)
        akn_namespaces == [i \in 1..Len(sorted) |-> sorted[i].uri]
        ns == FirstKnown(akn_namespaces, namespaces)
    IN  IF ns # None THEN [exc |-> NoFault, ret |-> ns]
        ELSE [exc |-> ValueError,
              msg |-> <<"Expected to find one of the following Akoma Ntoso XML namespaces: ",
                        akn_namespaces, ". Only these namespaces were found: ",
                        namespaces>>]

\* tag.split('}', 1)[1] has no index 1 when the tag has no namespace
HasLocalName(tag) == tag.ns # "<None>"

\* AkomaNtosoDocument.parse, after objectify.fromstring built `t`
base_parse(t) ==
    IF ~HasLocalName(t.root) THEN [exc |-> IndexError]
    ELSE IF t.root.name # "akomaNtoso"
    THEN [exc |-> ValueError,
          msg |-> <<"XML root element must be akomaNtoso, but got ",
                    t.root.name, " instead">>]
    ELSE [exc |-> NoFault, ret |-> t]

\* StructuredDocument.parse for a subclass whose document_type is given
structured_parse(t, document_type) ==
    LET r == base_parse(t)
    IN  IF r.exc # NoFault THEN r
        ELSE IF Len(t.kids) < 1
        THEN [exc |-> ValueError,
              msg |-> <<"XML root element must have at least one child">>]
        ELSE IF ~HasLocalName(t.kids[1]) THEN [exc |-> IndexError]
        ELSE IF t.kids[1].name # document_type
        THEN [exc |-> ValueError,
              msg |-> <<"Expected ", document_type,
                        " as first child of root element, but got ",
                        t.kids[1].name, " instead">>]
        ELSE [exc |-> NoFault, ret |-> t]

\* Collection.document_type
document_type == "collection"

----------------------------------------------------------------------------
(* bounds of the model *)

\* nested component / attachment sub-documents of a document
MaxNested == 2

\* FRBRalias children of the primary FRBRWork in an initial document
MaxAliases == 2

\* children of the references block in an initial document
MaxRefs == 2

\* nested sub-documents of the documents all the setters are run on
MaxSetterNested == 1

\* children of the root element of an input tree
MaxKids == 2

\* namespace declarations in root.nsmap
MaxNs == 2

\* all sequences over S of length at most n
SeqsUpTo(S, n) == UNION {[1..k -> S] : k \in 0..n}

----------------------------------------------------------------------------
(* the documents the model starts from *)

\* the identifier of the skeleton empty_document builds, on 2020-01-01: it
\* is given no expression date and no format
V0 == FrbrUri(Str("akn"), Str("za"), None, Str("collection"), None, None,
              Str("2020-01-01"), Str("1"), Str("main"), Str("eng"),
              None, None)

\* the identifier of a document whose URIs have been synchronized: V0 with
\* the expression date the frbr_uri setter gives it
V1 == [V0 EXCEPT !.expression_date = <<"@", "2020-01-01">>]

Cobalt == <<"#", "cobalt">>

CobaltOrg == RefEl("TLCOrganization", Str("cobalt"),
                   Str("https://github.com/laws-africa/cobalt"), Str("cobalt"))

\* the FRBRWork children of a document identified by u, as empty_document
\* lays them out, with the given aliases
WorkOf(u, aliases, withNumber) ==
    << El("FRBRthis", None, work_uri(u, TRUE), None),
       El("FRBRuri", None, work_uri(u, FALSE), None) >>
    \o aliases
    \o << El("FRBRdate", Str("Generation"), None, Str("2020-01-01")),
          El("FRBRauthor", None, None, None),
          El("FRBRcountry", None, place(u), None) >>
    \o (IF withNumber THEN <<El("FRBRnumber", None, u.number, None)>> ELSE <<>>)

TitleAlias == El("FRBRalias", Str("title"), Str("Untitled"), None)

\* a sub-document identified by u, as empty_document builds it
CompOf(u, aliases, withNumber) ==
    [ident |-> TRUE,
     work |-> WorkOf(u, aliases, withNumber),
     expr |-> [this |-> expression_uri(u, TRUE), uri |-> expression_uri(u, FALSE),
               date |-> Str("2020-01-01"), language |-> u.language],
     manif |-> [this |-> manifestation_uri(u, TRUE),
                uri |-> manifestation_uri(u, FALSE),
                date |-> Str("2020-01-01")]]

\* a nested sub-document whose meta has no identification block
NoIdentComp ==
    [ident |-> FALSE, work |-> <<>>,
     expr |-> [this |-> None, uri |-> None, date |-> None, language |-> None],
     manif |-> [this |-> None, uri |-> None, date |-> None]]

\* the meta children of the skeleton
SkeletonMeta ==
    << MetaEl("identification", Cobalt, <<>>),
       MetaEl("references", Cobalt, <<CobaltOrg>>) >>

\* work-component names of the sub-documents
PrimaryNames == {Str("main"), None}
NestedNames == {Str("main"), Str("schedule1"), Str("schedule2")}

\* what a nested sub-document of an initial document may be
NestedChoices ==
    {[name |-> n, ident |-> TRUE] : n \in NestedNames}
    \cup {[name |-> None, ident |-> FALSE]}

Nested(u, c, withNumber) ==
    IF c.ident
    THEN CompOf([u EXCEPT !.work_component = c.name], <<TitleAlias>>, withNumber)
    ELSE NoIdentComp

\* a document identified by u: the primary document named pn, the nested
\* sub-documents ns
DocOf(u, pn, ns, withNumber, mainIdent) ==
    [comps |-> <<CompOf([u EXCEPT !.work_component = pn], <<TitleAlias>>, withNumber)>>
               \o [i \in 1..Len(ns) |-> Nested(u, ns[i], withNumber)],
     meta |-> IF mainIdent THEN SkeletonMeta ELSE Tail(SkeletonMeta)]

\* the document empty_document builds: the one a StructuredDocument made
\* without XML starts from
Skeleton == DocOf(V0, Str("main"), <<>>, TRUE, TRUE)

\* the documents of the identifier specifications: the skeleton; parsed
\* documents with the primary document and up to MaxNested nested
\* sub-documents, each consistent with V1; documents that have no FRBRnumber
\* yet; documents whose primary meta has no identification block
UriDocs ==
    {Skeleton}
    \cup {DocOf(V1, pn, ns, TRUE, TRUE) :
            pn \in PrimaryNames, ns \in SeqsUpTo(NestedChoices, MaxNested)}
    \cup {DocOf(V1, Str("main"), ns, FALSE, TRUE) :
            ns \in SeqsUpTo({[name |-> Str("schedule1"), ident |-> TRUE]}, 1)}
    \cup {DocOf(V1, Str("main"), ns, TRUE, FALSE) :
            ns \in SeqsUpTo({[name |-> Str("schedule1"), ident |-> TRUE]}, 1)}

\* the documents of the specification of all the setters: the skeleton, and
\* parsed documents whose URIs embed their language and expression date
SetterDocs ==
    {Skeleton}
    \cup {DocOf(V1, Str("main"), ns, TRUE, TRUE) :
            ns \in SeqsUpTo({[name |-> n, ident |-> TRUE] :
                                n \in {Str("main"), Str("schedule1")}},
                            MaxSetterNested)}

\* the FRBRalias children an initial FRBRWork may have: the title, an alias
\* under another name, an alias without a name
AliasChoices ==
    {TitleAlias,
     El("FRBRalias", Str("alternative"), Str("Alt"), None),
     El("FRBRalias", None, Str("Old"), None)}

\* the documents of the title specification
TitleDocs ==
    {[comps |-> <<CompOf(V0, as, TRUE)>>, meta |-> SkeletonMeta] :
        as \in SeqsUpTo(AliasChoices, MaxAliases)}

\* the children an initial references block may have
RefChoices ==
    {CobaltOrg,
     RefEl("TLCOrganization", Str("other"), Str("/ontology/other"), Str("Other")),
     RefEl("TLCPerson", Str("cobalt"), Str("/ontology/cobalt"), Str("cobalt"))}

\* the lifecycle block an initial meta may have: none, or one whose source
\* is absent, empty, the tool's, or another agent's
LifecycleChoices ==
    {<<>>} \cup
    {<<MetaEl("lifecycle", src, <<>>)>> :
        src \in {None, EmptyStr, Cobalt, <<"#", "other">>}}

\* the references block an initial meta may have: none, or one with children
\* whose eIds differ
ReferencesChoices ==
    {<<>>} \cup
    {<<MetaEl("references", Cobalt, refs)>> :
        refs \in {r \in SeqsUpTo(RefChoices, MaxRefs) :
                    \A i, j \in 1..Len(r) : i # j => r[i].eId # r[j].eId}}

\* the documents of the lifecycle specification: meta in schema order, and
\* one meta with no identification block
LifecycleDocs ==
    {[comps |-> <<CompOf(V0, <<TitleAlias>>, TRUE)>>,
      meta |-> <<MetaEl("identification", Cobalt, <<>>)>>
               \o (IF pub THEN <<MetaEl("publication", None, <<>>)>> ELSE <<>>)
               \o lc \o rf] :
        pub \in BOOLEAN, lc \in LifecycleChoices, rf \in ReferencesChoices}
    \cup {[comps |-> <<CompOf(V0, <<TitleAlias>>, TRUE)>>, meta |-> <<>>]}

\* the values the setters are called with
Languages == {Str("eng"), Str("fra")}

DateArgs == {D2021, PyStr(Str("2020"))}

TitleArgs == {Str("Short title"), Str("Long title")}

\* the calls of ensure_element: the path's last element, the element it is
\* a child of and the sibling given as `after`
EnsureCalls ==
    {[at |-> "meta", tag |-> t, after |-> a] :
        t \in {"lifecycle", "references", "publication"},
        a \in {"identification", "publication", "lifecycle"}}
    \cup {[at |-> "work", tag |-> t, after |-> a] :
            t \in {"FRBRsubtype", "FRBRnumber", "FRBRalias"},
            a \in {"FRBRuri", "FRBRcountry"}}

\* the references _ensure_reference is called for: elem, name, id, href
ReferenceArgs ==
    {<<"TLCOrganization", source[1], source[2], source[3]>>,
     <<"TLCOrganization", Str("Other"), Str("other"), Str("/ontology/other")>>}

VA == FrbrUri(Str("akn"), Str("za"), None, Str("act"), None, None,
              Str("2020"), Str("22"), None, None, None, None)

VB == FrbrUri(Str("akn"), Str("na"), Str("cpt"), Str("act"), Str("by-law"), None,
              Str("2021-06-30"), Str("1"), Str("annex"), Str("fra"),
              <<"@", "2020">>, Str("xml"))

UriArgs ==
    {PyUri(VA), PyUri(VB),
     PyStr(<<"/", "za", "/", "act", "/", "2020", "/", "1", "/">>),
     PyStr(<<"akn">>)}

----------------------------------------------------------------------------
(* operations *)

\* before any operation
NoOp == [name |-> "init", arg |-> PyNone, exc |-> NoFault, ret |-> None,
         n |-> 0, prev |-> None, base |-> None]

\* the operation `name` with argument `arg` acted and handed back r.  op.n
\* tells a call that directly follows a call of the same operation (2) from
\* one that does not (1); for _ensure_lifecycle op.prev is what the
\* operation before handed back and op.base is the tree before the first of
\* the calls in a row.
Do(name, arg, r) ==
    /\ doc' = r.doc
    /\ pre' = doc
    /\ op' = [name |-> name, arg |-> arg, exc |-> r.exc, ret |-> r.ret,
              n |-> IF op.name = name THEN 2 ELSE 1,
              prev |-> IF name = "_ensure_lifecycle" THEN op.ret ELSE None,
              base |-> IF name # "_ensure_lifecycle" THEN None
                       ELSE IF op.name = name THEN op.base ELSE doc]
    /\ UNCHANGED <<tree, outcome>>

SetTitle == \E v \in TitleArgs : Do("title", PyStr(v), title_set(doc, v))

GetTitle == Do("title.get", PyNone, title_get(doc))

SetWorkDate == \E v \in {D2021} : Do("work_date", v, work_date_set(doc, v))

SetManifestationDate ==
    \E v \in {D2021} : Do("manifestation_date", v, manifestation_date_set(doc, v))

SetExpressionDate ==
    \E v \in DateArgs : Do("expression_date", v, expression_date_set(doc, v))

SetLanguage == \E v \in Languages : Do("language", PyStr(v), language_set(doc, v))

SetFrbrUri == \E a \in UriArgs : Do("frbr_uri", a, frbr_uri_set(doc, a))

Components == Do("components", PyNone, components(doc))

EnsureLifecycle == Do("_ensure_lifecycle", PyNone, ensure_lifecycle(doc))

EnsureReference ==
    \E a \in ReferenceArgs :
        Do("_ensure_reference", PyNone,
           ensure_reference(doc, a[1], a[2], a[3], a[4]))

\* ensure_element called with an `after` the caller could get hold of: the
\* sibling is there
EnsureElement ==
    \E c \in EnsureCalls :
        /\ c.at = "work" => HasIdent(doc, 1)
        /\ FirstIdx(Kids(doc, c.at), c.after) # 0
        /\ Do("ensure_element", PyNone,
              ensure_element_call(doc, c.at, c.tag, c.after))

NoTree == [root |-> QName("<None>", ""), kids |-> <<>>, namespaces |-> <<>>]

InitUri ==
    /\ doc \in UriDocs
    /\ pre = doc
    /\ op = NoOp
    /\ tree = NoTree
    /\ outcome = [call |-> "none"]

NextUri ==
    \/ SetExpressionDate
    \/ SetLanguage
    \/ SetFrbrUri
    \/ Components

SpecUri == InitUri /\ [][NextUri]_vars

\* the input trees: the root and its children, with or without a namespace,
\* and root.nsmap.values(), which holds the root's own namespace
XHTML == "http://www.w3.org/1999/xhtml"

RootChoices == {QName(ns, n) : ns \in {"<None>", NS3}, n \in {"akomaNtoso", "akn"}}

KidChoices == {QName(ns, n) : ns \in {"<None>", NS3}, n \in {"collection", "act"}}

Trees ==
    {t \in [root : RootChoices, kids : SeqsUpTo(KidChoices, MaxKids),
            namespaces : SeqsUpTo({NS2, NS3, XHTML}, MaxNs)] :
        t.root.ns # "<None>" =>
            \E i \in 1..Len(t.namespaces) : t.namespaces[i] = t.root.ns}

NoDoc == [comps |-> <<>>, meta |-> <<>>]

InitParse ==
    /\ tree \in Trees
    /\ outcome = [call |-> "none"]
    /\ doc = NoDoc
    /\ pre = NoDoc
    /\ op = NoOp

\* AkomaNtosoDocument.parse on the tree
BaseParse ==
    /\ outcome' = [call |-> "AkomaNtosoDocument.parse", r |-> base_parse(tree)]
    /\ UNCHANGED <<tree, doc, pre, op>>

\* Collection's parse (StructuredDocument.parse) on the tree
Parse ==
    /\ outcome' = [call |-> "parse", r |-> structured_parse(tree, document_type)]
    /\ UNCHANGED <<tree, doc, pre, op>>

\* get_namespace() on the tree
GetNamespace ==
    /\ outcome' = [call |-> "get_namespace", r |-> get_namespace(tree.namespaces)]
    /\ UNCHANGED <<tree, doc, pre, op>>

NextParse ==
    \/ BaseParse
    \/ Parse
    \/ GetNamespace

SpecParse == InitParse /\ [][NextParse]_vars

InitTitle ==
    /\ doc \in TitleDocs
    /\ pre = doc
    /\ op = NoOp
    /\ tree = NoTree
    /\ outcome = [call |-> "none"]

NextTitle ==
    \/ SetTitle
    \/ GetTitle
    \/ EnsureElement

SpecTitle == InitTitle /\ [][NextTitle]_vars

InitLifecycle ==
    /\ doc \in LifecycleDocs
    /\ pre = doc
    /\ op = NoOp
    /\ tree = NoTree
    /\ outcome = [call |-> "none"]

NextLifecycle ==
    \/ EnsureLifecycle
    \/ EnsureReference
    \/ EnsureElement
    \/ GetTitle

SpecLifecycle == InitLifecycle /\ [][NextLifecycle]_vars

NextSetters ==
    \/ SetTitle
    \/ SetWorkDate
    \/ SetManifestationDate
    \/ SetExpressionDate
    \/ SetLanguage
    \/ SetFrbrUri

InitSetters ==
    /\ doc \in SetterDocs
    /\ pre = doc
    /\ op = NoOp
    /\ tree = NoTree
    /\ outcome = [call |-> "none"]

SpecSetters == InitSetters /\ [][NextSetters]_vars

----------------------------------------------------------------------------
(* what the claims speak of *)

\* the work-component name a sub-document carries: the one components()
\* reads from its Work FRBRthis
OwnName(d, i) == parse_uri(WorkChild(d.comps[i], "FRBRthis").value).work_component

\* the identifier the frbr_uri setter applies to document d for the argument
\* arg: parsed if a str, with the document's language and expression date
Effective(d, arg) ==
    LET u0 == IF arg.t = "uri" THEN arg.u ELSE parse_uri(arg.s)
    IN  [u0 EXCEPT !.language = language_get(d).ret,
                   !.expression_date =
                       <<"@">> \o datestring(expression_date_get(d).ret)]

\* every sub-document of d has an identification block
AllIdent(d) == \A i \in 1..Len(d.comps) : HasIdent(d, i)

\* the names of a component map, in order
Names(m) == [k \in 1..Len(m) |-> m[k].name]

\* sub-document i of d carries the identifier u under the name `name`
Carries(d, i, u0, name) ==
    LET u == [u0 EXCEPT !.work_component = name]
        c == d.comps[i]
    IN  /\ WorkChild(c, "FRBRthis").value = work_uri(u, TRUE)
        /\ WorkChild(c, "FRBRuri").value = work_uri(u, FALSE)
        /\ c.expr.this = expression_uri(u, TRUE)
        /\ c.expr.uri = expression_uri(u, FALSE)
        /\ c.manif.this = expression_uri(u, TRUE)
        /\ c.manif.uri = expression_uri(u, FALSE)

\* the frbr_uri setter was called and completed
SetterDone == op.name = "frbr_uri" /\ op.exc = NoFault

----------------------------------------------------------------------------
(* C1 *)

\* C1: after the frbr_uri setter completes on a document in which every
\* component carries an identification block, every sub-document (the primary
\* one and each nested one) carries the new identifier under its own name.
C1_EveryComponentRewritten ==
    (SetterDone /\ AllIdent(pre)) =>
        \A i \in 1..Len(doc.comps) :
            Carries(doc, i, Effective(pre, op.arg), OwnName(pre, i))

----------------------------------------------------------------------------
(* C2 *)

\* the text s is an expression-scope URI that carries the language and the
\* expression date document d has now
EmbedsCurrent(d, s) ==
    /\ ~IsParseError(parse_uri(s))
    /\ parse_uri(s).language = language_get(d).ret
    /\ parse_uri(s).expression_date =
           <<"@">> \o datestring(expression_date_get(d).ret)

\* every sub-document of d has an identification block, and its Expression
\* and Manifestation URI strings embed d's current language and expression
\* date
Synchronized(d) ==
    /\ AllIdent(d)
    /\ \A i \in 1..Len(d.comps) :
          /\ EmbedsCurrent(d, d.comps[i].expr.uri)
          /\ EmbedsCurrent(d, d.comps[i].expr.this)
          /\ EmbedsCurrent(d, d.comps[i].manif.uri)
          /\ EmbedsCurrent(d, d.comps[i].manif.this)

\* C2: starting from a document in which it holds, every call of one of the
\* setters title, work_date, expression_date, manifestation_date, language
\* and frbr_uri leaves the Expression and Manifestation URI strings of the
\* primary document and of every component embedding the document's current
\* language and expression date.
C2_UrisEmbedLanguageAndDate ==
    [][Synchronized(doc) => Synchronized(doc')]_vars

----------------------------------------------------------------------------
(* C3 *)

\* C3: after the frbr_uri setter completes, in every component it updated the
\* Manifestation FRBRuri equals the Expression FRBRuri and the Manifestation
\* FRBRthis equals the Expression FRBRthis.
C3_ManifestationIsExpression ==
    SetterDone =>
        \A k \in 1..Len(components(pre).ret) :
            LET c == doc.comps[components(pre).ret[k].idx]
            IN  /\ c.manif.uri = c.expr.uri
                /\ c.manif.this = c.expr.this
                /\ c.manif.uri = expression_uri(
                       [Effective(pre, op.arg) EXCEPT
                           !.work_component = components(pre).ret[k].name], FALSE)

\* the setter completed for an identifier with a format, on a document with a
\* nested component: the manifestation-scope form would differ
C3_Witness ==
    /\ SetterDone
    /\ op.arg = PyUri(VB)
    /\ Len(components(pre).ret) >= 2
    /\ manifestation_uri(op.ret.u, TRUE) # expression_uri(op.ret.u, TRUE)
    /\ doc.comps[2].manif.this = expression_uri(op.ret.u, TRUE)

----------------------------------------------------------------------------
(* C4 *)

\* C4: components() has one entry for the primary document and one for every
\* nested sub-document with identification metadata, each keyed by that
\* sub-document's own name and mapped to its own element, the primary
\* document first and the others in document order.
C4_OneEntryPerSubDocument ==
    (op.name = "components" /\ op.exc = NoFault) =>
        /\ Len(op.ret) = Len(doc.comps)
        /\ \A i \in 1..Len(op.ret) :
              op.ret[i].idx = i /\ op.ret[i].name = OwnName(doc, i)

----------------------------------------------------------------------------
(* C5 *)

\* the lifecycle blocks of a meta
LifecycleBlocks(d) == {i \in 1..Len(d.meta) : d.meta[i].tag = "lifecycle"}

\* the organization references of d whose eId is the source id of the
\* lifecycle block: (references block, child) pairs
MatchingOrgs(d) ==
    {rc \in UNION {{<<r, c>> : c \in 1..Len(d.meta[r].refs)} : r \in 1..Len(d.meta)} :
        /\ d.meta[rc[1]].tag = "references"
        /\ d.meta[rc[1]].refs[rc[2]].elem = "TLCOrganization"
        /\ \E i \in LifecycleBlocks(d) :
              d.meta[i].source = <<"#">> \o d.meta[rc[1]].refs[rc[2]].eId}

\* _ensure_lifecycle() was called twice in a row and both calls returned
CalledTwice == op.name = "_ensure_lifecycle" /\ op.n = 2 /\ op.exc = NoFault

\* the lifecycle block of d has a source
Sourced(d) ==
    \E i \in LifecycleBlocks(d) : Truthy(d.meta[i].source)

\* C5 as claimed: for any document, after two calls of _ensure_lifecycle() in
\* a row the metadata has exactly one lifecycle block and exactly one
\* organization reference whose eId matches its source id; the second call
\* changes nothing and returns the element the first returned.
C5_OneLifecycleOneReference ==
    CalledTwice =>
        /\ Cardinality(LifecycleBlocks(doc)) = 1
        /\ Cardinality(MatchingOrgs(doc)) = 1
        /\ doc = pre
        /\ op.ret = op.prev

\* C5 amended: after two calls in a row there is exactly one lifecycle block,
\* the second call changes nothing and returns the element the first
\* returned; there is exactly one organization reference matching the source
\* id when the lifecycle block had no source before the first call, and when
\* it had one neither call changes the tree.
C5_IdempotentLifecycle ==
    CalledTwice =>
        /\ Cardinality(LifecycleBlocks(doc)) = 1
        /\ doc = pre
        /\ op.ret = op.prev
        /\ IF Sourced(op.base)
           THEN doc = op.base
           ELSE /\ doc.meta[op.ret].source = <<"#">> \o source[2]
                /\ Cardinality(MatchingOrgs(doc)) = 1

\* two calls in a row on a document without a lifecycle block and with a
\* references block that names another organization only: the first call
\* made the lifecycle block and the reference
C5_Witness ==
    /\ CalledTwice
    /\ LifecycleBlocks(op.base) = {}
    /\ get_element(op.base.meta, "publication") # 0
    /\ get_element(op.base.meta, "references") # 0
    /\ MatchingOrgs(op.base) = {}
    /\ Cardinality(MatchingOrgs(doc)) = 1
    /\ doc.meta[op.ret].tag = "lifecycle"

----------------------------------------------------------------------------
(* C6 *)

\* the title setter was called and returned
TitleSet == op.name = "title" /\ op.exc = NoFault

\* the aliases named "title" of the primary FRBRWork
TitleAliases(d) ==
    {i \in AliasIdx(d.comps[1].work) : d.comps[1].work[i].name = Str("title")}

\* the primary FRBRWork of d is that of d0 with a new alias named "title",
\* holding the value, right behind FRBRuri
NewAliasBehindUri(d, d0, value) ==
    LET w == d.comps[1].work
        w0 == d0.comps[1].work
        at == FirstIdx(w0, "FRBRuri") + 1
    IN  /\ Len(w) = Len(w0) + 1
        /\ w[at] = El("FRBRalias", Str("title"), value, None)
        /\ remove(w, at) = w0

\* the primary FRBRWork of d is that of d0 but for the child at index a,
\* which is named "title" and holds the value
Overwritten(d, d0, a, value) ==
    d.comps[1].work =
        [d0.comps[1].work EXCEPT ![a].name = Str("title"), ![a].value = value]

\* the first of a set of indices
First(S) == CHOOSE i \in S : \A j \in S : i <= j

\* C6 as claimed: the title setter makes a new alias right behind the Work
\* FRBRuri, named "title" and holding the value, whenever there is no alias
\* named "title" (also when aliases under other names exist); when there is
\* one it only overwrites its value; the getter then returns the value.
C6_NewAliasUnlessTitleExists ==
    TitleSet =>
        /\ IF TitleAliases(pre) = {}
           THEN NewAliasBehindUri(doc, pre, op.arg.s)
           ELSE Overwritten(doc, pre, First(TitleAliases(pre)), op.arg.s)
        /\ title_get(doc).ret = op.arg.s

\* C6 amended: the title setter makes a new alias right behind the Work
\* FRBRuri, named "title" and holding the value, when FRBRWork has no alias at
\* all; when it has aliases but none named "title" it makes none, names the
\* first alias "title" and overwrites its value; when there is an alias named
\* "title" it only overwrites the value of the first such; the getter then
\* returns the value.
C6_TitleAliasEnsured ==
    TitleSet =>
        /\ IF AliasIdx(pre.comps[1].work) = {}
           THEN NewAliasBehindUri(doc, pre, op.arg.s)
           ELSE IF TitleAliases(pre) = {}
           THEN Overwritten(doc, pre, First(AliasIdx(pre.comps[1].work)), op.arg.s)
           ELSE Overwritten(doc, pre, First(TitleAliases(pre)), op.arg.s)
        /\ title_get(doc).ret = op.arg.s

\* the title was set on a document whose only aliases had other names: the
\* first of them now is the title and no element was added
C6_Witness ==
    /\ TitleSet
    /\ TitleAliases(pre) = {}
    /\ Cardinality(AliasIdx(pre.comps[1].work)) = 2
    /\ Len(doc.comps[1].work) = Len(pre.comps[1].work)
    /\ TitleAliases(doc) = {First(AliasIdx(pre.comps[1].work))}

----------------------------------------------------------------------------
(* C7 *)

\* the tree is what a structured document of the type must be: the root is
\* akomaNtoso and its first child is the document type
WellShaped(t) ==
    /\ t.root.name = "akomaNtoso"
    /\ Len(t.kids) >= 1
    /\ t.kids[1].name = document_type

\* the message names the tag
NamesTag(msg, tag) == \E i \in 1..Len(msg) : msg[i] = tag

\* C7: parse returns the root if and only if the root's local name is
\* akomaNtoso, it has a child and the first child's local name is the
\* document type; in every other case it fails with a ValueError and no other
\* fault, whose message names the root tag or the first-child tag found.
C7_ParseValidates ==
    outcome.call = "parse" =>
        IF WellShaped(tree)
        THEN outcome.r.exc = NoFault /\ outcome.r.ret = tree
        ELSE /\ outcome.r.exc = ValueError
             /\ tree.root.name # "akomaNtoso" => NamesTag(outcome.r.msg, tree.root.name)
             /\ (tree.root.name = "akomaNtoso" /\ Len(tree.kids) >= 1)
                    => NamesTag(outcome.r.msg, tree.kids[1].name)

----------------------------------------------------------------------------
(* C8 *)

\* the number a version label "d.d" stands for, in tenths
VersionNumber(label) == (label[1] - 48) * 10 + (label[3] - 48)

\* the entries of the table whose namespace root.nsmap holds
Present(namespaces) ==
    {i \in 1..Len(AKN_NAMESPACES) :
        \E j \in 1..Len(namespaces) : namespaces[j] = AKN_NAMESPACES[i].uri}

\* C8: get_namespace returns the namespace of the highest version of the
\* table that the tree declares, and when it declares none fails with a
\* ValueError naming every known namespace and every namespace found.
C8_HighestVersionPresent ==
    outcome.call = "get_namespace" =>
        LET present == Present(tree.namespaces)
        IN  IF present # {}
            THEN /\ outcome.r.exc = NoFault
                 /\ \E i \in present :
                       /\ outcome.r.ret = Str(AKN_NAMESPACES[i].uri)
                       /\ \A j \in present :
                             VersionNumber(AKN_NAMESPACES[j].label)
                                 <= VersionNumber(AKN_NAMESPACES[i].label)
            ELSE /\ outcome.r.exc = ValueError
                 /\ \A i \in 1..Len(AKN_NAMESPACES) :
                       \E k \in 1..Len(outcome.r.msg[2]) :
                           outcome.r.msg[2][k] = AKN_NAMESPACES[i].uri
                 /\ outcome.r.msg[4] = tree.namespaces

\* a tree that declares the 2.0 namespace before the 3.0 one resolved to 3.0
C8_Witness ==
    /\ outcome.call = "get_namespace"
    /\ tree.namespaces = <<NS2, NS3>>
    /\ outcome.r.exc = NoFault
    /\ outcome.r.ret = Str(NS3)

----------------------------------------------------------------------------
(* C9 *)

\* the first sub-document, in discovery order, without an identification block
FirstWithoutIdent(d) ==
    CHOOSE k \in 1..Len(d.comps) :
        ~HasIdent(d, k) /\ \A j \in 1..(k - 1) : HasIdent(d, j)

\* the setter failed because a component has no identification block
SetterFailedOnIdent ==
    op.name = "frbr_uri" /\ op.exc = AttributeError /\ ~AllIdent(pre)

\* C9 as claimed: when the setter fails because the k-th component lacks an
\* identification block, every component before the k-th is rewritten to the
\* new identifier and the k-th and later ones are as before.
C9_EarlierRewritten ==
    SetterFailedOnIdent =>
        LET k == FirstWithoutIdent(pre)
        IN  /\ \A i \in 1..(k - 1) :
                  Carries(doc, i, Effective(pre, op.arg), OwnName(pre, i))
            /\ \A i \in k..Len(doc.comps) : doc.comps[i] = pre.comps[i]

\* C9 amended: when the setter fails because a component lacks an
\* identification block, the fault reaches the caller and no component has
\* been rewritten: the whole tree is as it was before the call.
C9_NothingRewritten == SetterFailedOnIdent => doc = pre

\* the setter failed on a document whose second sub-document has no
\* identification block, for an identifier the primary document did not carry
C9_Witness ==
    /\ SetterFailedOnIdent
    /\ FirstWithoutIdent(pre) = 2
    /\ op.arg = PyUri(VA)
    /\ ~Carries(pre, 1, Effective(pre, op.arg), OwnName(pre, 1))

----------------------------------------------------------------------------
(* C10 *)

\* C10: the frbr_uri setter does not change the component map: the names
\* components() returns after it are those it returned before, and applying
\* the setter again with the same value leaves the tree unchanged.
C10_ComponentMapKept ==
    SetterDone =>
        /\ components(doc).exc = NoFault
        /\ Names(components(doc).ret) = Names(components(pre).ret)
        /\ frbr_uri_set(doc, IF op.arg.t = "uri" THEN op.ret ELSE op.arg).doc = doc

\* the setter completed for an identifier naming a work component that no
\* sub-document has, on a document with two differently named components
C10_Witness ==
    /\ SetterDone
    /\ op.arg = PyUri(VB)
    /\ Len(components(doc).ret) >= 2
    /\ \A k \in 1..Len(components(doc).ret) :
          components(doc).ret[k].name # VB.work_component
    /\ doc # pre

====
